---- MODULE Spec2Model ----
(***************************************************************************)
(* A model of qq-group-name-extract: the HTML table extractor              *)
(* (src/src/table.rs), the member mapper (src/src/qqtable.rs) and the      *)
(* conversion driver (src/src/main.rs).                                    *)
(*                                                                         *)
(* Strings are sequences of tokens.  A token is one markup tag ("<span>",  *)
(* "</span>", "<b>", "</b>", "<img>"), one blank " ", or one text          *)
(* character.  inner_html() serialises a text '<' as "&lt;", so a          *)
(* serialised string begins with the character '<' exactly when its first  *)
(* token is a tag.  The non-ASCII literals of the source are written in    *)
(* ASCII: "nan" (U+7537, male), "nv" (U+5973, female), "weizhi"            *)
(* (U+672A U+77E5, unknown), and the CSV header names likewise.            *)
(*                                                                         *)
(* A document is the sequence of its table elements in document order; a   *)
(* table element is [id, trs], trs the sequence of its tr elements; a tr   *)
(* is the sequence of its th/td cells, each [tag, html] with html the      *)
(* cell's inner HTML.  Nested tables are not modelled.                     *)
(***************************************************************************)
EXTENDS Integers, Sequences, FiniteSets, TLC

VARIABLES
    html,      \* table.rs: the document handed to the Table entry points
    call,      \* table.rs: the last entry point called, with its argument
    ret,       \* table.rs: the Option<Table> it returned
    got,       \* table.rs: the last Row::get, [row, header, value]
    page,      \* qqtable.rs: the document handed to Member::from_html
    result,    \* qqtable.rs: what Member::from_html ended in
    args,      \* main.rs: args.paths, the command-line paths
    listing,   \* main.rs: the entries WalkDir yields under the directory
    files,     \* main.rs: the content of each .html file
    csv0,      \* main.rs: the .csv files as the run found them
    csv,       \* main.rs: the .csv files
    argIdx,    \* main.rs: the position of the outer for loop in args.paths
    walkIdx,   \* main.rs: the position of the inner for loop in the walk
    pc,        \* main.rs: where main is
    file_str,  \* main.rs: convert_html's file_str
    members,   \* main.rs: convert_html's table, the Vec<Member>
    reads,     \* main.rs: the files read so far, in order
    error      \* main.rs: the error main returned

tableVars == <<html, call, ret, got>>
memberVars == <<page, result>>
driverVars ==
    <<args, listing, files, csv0, csv, argIdx, walkIdx, pc, file_str, members, reads,
      error>>
vars == <<tableVars, memberVars, driverVars>>

----------------------------------------------------------------------------
(* Strings *)

Tags == {"<span>", "</span>", "<b>", "</b>", "<img>"}

\* str::trim: the string without its leading and trailing blanks.
RECURSIVE TrimStart(_)
TrimStart(s) ==
    IF s # <<>> /\ Head(s) = " " THEN TrimStart(Tail(s)) ELSE s

RECURSIVE TrimEnd(_)
TrimEnd(s) ==
    IF s # <<>> /\ s[Len(s)] = " " THEN TrimEnd(SubSeq(s, 1, Len(s) - 1)) ELSE s

Trim(s) == TrimEnd(TrimStart(s))

\* str::starts_with('<')
StartsWithLt(s) == s # <<>> /\ Head(s) \in Tags

----------------------------------------------------------------------------
(* table.rs *)

\* Option<T>: None, and Some(v).
None == [some |-> FALSE]
Some(v) == [some |-> TRUE, val |-> v]

\* element.select(selector) for the selectors "th" and "td" on a tr.
Select(tr, tag) == SelectSeq(tr, LAMBDA c : c.tag = tag)

cell_content(element) == Trim(element.html)

select_cells(element, tag) ==
    LET sel == Select(element, tag)
    IN  [i \in 1..Len(sel) |-> cell_content(sel[i])]

contains_str(slice, item) == \E i \in 1..Len(slice) : slice[i] = item

\* HashMap::insert: the new key, or the old key with its value replaced.
Insert(m, k, v) == [x \in DOMAIN m \cup {k} |-> IF x = k THEN v ELSE m[x]]

\* The loop of Table::new over the th cells of the first row, enumerate()d from 0.
RECURSIVE InsertHeaders(_, _, _)
InsertHeaders(headers, ths, i) ==
    IF i >= Len(ths) THEN headers
    ELSE InsertHeaders(Insert(headers, cell_content(ths[i + 1]), i), ths, i + 1)

EmptyMap == [x \in {} |-> 0]

FirstRowHeaders(rows) ==
    IF rows # <<>> THEN InsertHeaders(EmptyMap, Select(rows[1], "th"), 0)
    ELSE EmptyMap

\* DataRows with a fault: the first row is always taken as the header row.
AlwaysSkipFirst(headers, rows) == IF rows # <<>> THEN Tail(rows) ELSE rows

\* rows.next() when the header map is not empty, then the rows that are left.
DataRows(headers, rows) ==
    IF DOMAIN headers # {} THEN Tail(rows) ELSE rows

TableNew(element) ==
    LET rows    == element.trs
        headers == FirstRowHeaders(rows)
        rest    == DataRows(headers, rows)
    IN  [headers |-> headers,
         data    |-> [i \in 1..Len(rest) |-> select_cells(rest[i], "td")]]

\* Table::iter with Iter::next: one Row (headers, cells) per data row, in order.
Iter(table) ==
    [r \in 1..Len(table.data) |-> [headers |-> table.headers, cells |-> table.data[r]]]

\* Iterator::find (and next) on the table elements selected from the document:
\* the position of the first one that matches, 0 when none does.
RECURSIVE Find(_, _)
Find(matches, i) ==
    IF i > Len(matches) THEN 0
    ELSE IF matches[i] THEN i
    ELSE Find(matches, i + 1)

\* Option::map(Table::new) on the element found.
MapNew(doc, i) == IF i = 0 THEN None ELSE Some(TableNew(doc[i]))

find_first(doc) == MapNew(doc, Find([i \in 1..Len(doc) |-> TRUE], 1))

\* Selector::parse("table#" + id) fails on an empty id.
find_by_id(doc, id) ==
    IF id = "" THEN None
    ELSE MapNew(doc, Find([i \in 1..Len(doc) |-> doc[i].id = id], 1))

\* HasHeaders with a fault: one requested header is enough.
HasAnyHeader(table, headers) ==
    /\ table.trs # <<>>
    /\ \E j \in 1..Len(headers) :
           contains_str(select_cells(table.trs[1], "th"), headers[j])

\* The closure given to find() in find_by_headers.
HasHeaders(table, headers) ==
    /\ table.trs # <<>>
    /\ LET cells == select_cells(table.trs[1], "th")
       IN  \A j \in 1..Len(headers) : contains_str(cells, headers[j])

find_by_headers(doc, headers) ==
    IF headers = <<>> THEN find_first(doc)
    ELSE MapNew(doc, Find([i \in 1..Len(doc) |-> HasHeaders(doc[i], headers)], 1))

\* RowGet with a fault: the zero-based index is taken as a one-based one.
RowGetOneBased(headers, cells, header) ==
    IF header \in DOMAIN headers
    THEN IF 1 <= headers[header] /\ headers[header] <= Len(cells)
         THEN Some(cells[headers[header]])
         ELSE None
    ELSE None

\* Row::get on the row (headers, cells).
RowGet(headers, cells, header) ==
    IF header \in DOMAIN headers
    THEN IF headers[header] < Len(cells)
         THEN Some(cells[headers[header] + 1])
         ELSE None
    ELSE None

----------------------------------------------------------------------------
(* qqtable.rs *)

\* eyre errors, by what they report: the kind, the header or element, the row.
NoError == <<>>
MissingField(header, i) == <<"MissingField", header, i>>
NotFound(what, i) == <<"NotFound", what, i>>

\* Result<T>: Ok(v) and Err(e); Panicked is a panic unwinding through the call.
Ok(v) == [kind |-> "Ok", val |-> v, err |-> NoError]
Err(e) == [kind |-> "Err", val |-> <<>>, err |-> e]
Panicked == [kind |-> "Panic", val |-> <<>>, err |-> NoError]

\* impl Display for Gender
GenderDisplay(gender) ==
    CASE gender = "Male" -> <<"nan">>
      [] gender = "Female" -> <<"nv">>
      [] gender = "Unknown" -> <<"wei", "zhi">>

get_header(cell, header, row_index, cell_index) ==
    IF cell_index < Len(cell)
    THEN Ok(cell[cell_index + 1])
    ELSE Err(MissingField(header, row_index))

\* The position of the first "<span>" token at or after i, 0 when there is none.
RECURSIVE SpanOpen(_, _)
SpanOpen(s, i) ==
    IF i > Len(s) THEN 0
    ELSE IF s[i] = "<span>" THEN i
    ELSE SpanOpen(s, i + 1)

\* The position of the "</span>" that closes a span whose content starts at i;
\* the parser closes an unclosed span at the end of the fragment.
RECURSIVE SpanClose(_, _, _)
SpanClose(s, i, depth) ==
    IF i > Len(s) THEN i
    ELSE IF s[i] = "<span>" THEN SpanClose(s, i + 1, depth + 1)
    ELSE IF s[i] = "</span>"
         THEN IF depth = 0 THEN i ELSE SpanClose(s, i + 1, depth - 1)
    ELSE SpanClose(s, i + 1, depth)

\* Html::parse_fragment(s).select(span).next(), then inner_html().trim():
\* the trimmed inner HTML of the first span element in document order.
FirstSpan(s) ==
    LET open == SpanOpen(s, 1)
    IN  IF open = 0 THEN None
        ELSE Some(Trim(SubSeq(s, open + 1, SpanClose(s, open + 1, 0) - 1)))

\* The qq_name block of the closure.
QqName(cells, i) ==
    LET name_raw_html == get_header(cells, "chengyuan", i, 2)
    IN  IF name_raw_html.kind # "Ok" THEN name_raw_html
        ELSE LET span == FirstSpan(name_raw_html.val)
             IN  IF span.some THEN Ok(span.val)
                 ELSE Err(NotFound("chengyuan", i))

\* Unwrap with a fault: the markup is unwrapped for as long as it is markup.
RECURSIVE UnwrapAll(_, _)
UnwrapAll(group_name, i) ==
    IF StartsWithLt(group_name)
    THEN LET span == FirstSpan(group_name)
         IN  IF span.some THEN UnwrapAll(span.val, i)
             ELSE Err(NotFound("qunnicheng", i))
    ELSE Ok(group_name)

\* "if still has html, parse again": the if of the group_name block.
Unwrap(group_name, i) ==
    IF StartsWithLt(group_name)
    THEN LET span == FirstSpan(group_name)
         IN  IF span.some THEN Ok(span.val)
             ELSE Err(NotFound("qunnicheng", i))
    ELSE Ok(group_name)

\* The group_name block of the closure.
GroupName(cells, i) ==
    LET group_name_txt == get_header(cells, "qunnicheng", i, 3)
    IN  IF group_name_txt.kind # "Ok" THEN group_name_txt
        ELSE LET span == FirstSpan(group_name_txt.val)
             IN  IF span.some THEN Unwrap(span.val, i)
                 ELSE Err(NotFound("qunnicheng", i))

\* MatchGender with a fault: a gender that is not recognised is Unknown.
MatchGenderLenient(s) ==
    IF s = <<"nan">> THEN Ok("Male")
    ELSE IF s = <<"nv">> THEN Ok("Female")
    ELSE Ok("Unknown")

\* The match on the gender cell.
MatchGender(s) ==
    IF s = <<"nan">> THEN Ok("Male")
    ELSE IF s = <<"nv">> THEN Ok("Female")
    ELSE IF s = <<"wei", "zhi">> THEN Ok("Unknown")
    ELSE Panicked

\* The gender field of the closure.
GenderField(cells, i) ==
    LET cell == get_header(cells, "xingbie", i, 5)
    IN  IF cell.kind # "Ok" THEN cell ELSE MatchGender(cell.val)

\* The closure given to map(): the fields of Member are evaluated in the order
\* they are written, and the first `?` or panic ends the evaluation.
MapRow(i, cells) ==
    LET qq_name          == QqName(cells, i)
        group_name       == GroupName(cells, i)
        qq_number        == get_header(cells, "QQhao", i, 4)
        gender           == GenderField(cells, i)
        qq_age           == get_header(cells, "Qling", i, 6)
        joined_date      == get_header(cells, "ruqunshijian", i, 7)
        last_spoken_date == get_header(cells, "zuihoufayan", i, 8)
    IN  IF qq_name.kind # "Ok" THEN qq_name
        ELSE IF group_name.kind # "Ok" THEN group_name
        ELSE IF qq_number.kind # "Ok" THEN qq_number
        ELSE IF gender.kind # "Ok" THEN gender
        ELSE IF qq_age.kind # "Ok" THEN qq_age
        ELSE IF joined_date.kind # "Ok" THEN joined_date
        ELSE IF last_spoken_date.kind # "Ok" THEN last_spoken_date
        ELSE Ok([qq_name          |-> qq_name.val,
                 group_name       |-> group_name.val,
                 qq_number        |-> qq_number.val,
                 gender           |-> gender.val,
                 qq_age           |-> qq_age.val,
                 joined_date      |-> joined_date.val,
                 last_spoken_date |-> last_spoken_date.val])

\* Collect with a fault: a row that fails is left out.
RECURSIVE CollectSkipping(_, _, _)
CollectSkipping(rows, i, acc) ==
    IF i >= Len(rows) THEN Ok(acc)
    ELSE LET r == MapRow(i, rows[i + 1].cells)
         IN  IF r.kind = "Panic" THEN Panicked
             ELSE IF r.kind = "Err" THEN CollectSkipping(rows, i + 1, acc)
             ELSE CollectSkipping(rows, i + 1, Append(acc, r.val))

\* enumerate().map(closure).collect::<Result<Vec<_>>>(): the rows are mapped in
\* order, and the first Err (or a panic) ends the iteration.
RECURSIVE Collect(_, _, _)
Collect(rows, i, acc) ==
    IF i >= Len(rows) THEN Ok(acc)
    ELSE LET r == MapRow(i, rows[i + 1].cells)
         IN  IF r.kind # "Ok" THEN r
             ELSE Collect(rows, i + 1, Append(acc, r.val))

\* Member::from_html
from_html(doc) ==
    LET table == find_by_id(doc, "groupMember")
    IN  IF ~table.some THEN Err(NotFound("table", 0))
        ELSE Collect(Iter(table.val), 0, <<>>)

----------------------------------------------------------------------------
(* main.rs *)

\* A path is [stem, ext], ext the Option that Path::extension returns.  An
\* entry of a walk is [kind, path], kind "file" for a regular file, "dir" for a
\* directory and "err" for an Err of the walk.
with_extension(path, ext) == [path EXCEPT !.ext = Some(ext)]

\* An I/O error of the standard library or of the csv writer.
IoError(what) == <<"Io", what, 0>>

\* WalkDir::new(path).into_iter(): a directory is yielded before its entries, a
\* file alone.
Walk(arg, entries) == IF arg.kind = "dir" THEN <<arg>> \o entries ELSE <<arg>>

\* filter_map(|e| e.ok()), then filter(|p| p.is_file() &&
\* p.extension().unwrap() == "html"): what becomes of an entry of the walk.
FilterEntry(e) ==
    IF e.kind = "err" THEN "skip"
    ELSE IF e.kind # "file" THEN "skip"
    ELSE IF ~e.path.ext.some THEN "panic"
    ELSE IF e.path.ext.val = "html" THEN "convert"
    ELSE "skip"

\* AfterConvert with a fault: an error is dropped and the walk goes on.
AfterConvertGoOn(ok) == "walk"

\* The `?` on convert_html's result in main: Ok goes on with the walk, Err
\* returns from main.
AfterConvert(ok) == IF ok THEN "walk" ELSE "error"

\* AfterFromHtml with a fault: the output is written whatever from_html returns.
AfterFromHtmlAlwaysWrite(r) == IF r.kind = "Panic" THEN "panic" ELSE "write"

\* The `?` on Member::from_html's result in convert_html.
AfterFromHtml(r) ==
    IF r.kind = "Ok" THEN "write"
    ELSE IF r.kind = "Err" THEN AfterConvert(FALSE)
    ELSE "panic"

\* The first write_record of convert_html.
HeaderRecord ==
    <<<<"chengyuan">>, <<"qunnicheng">>, <<"QQhao">>, <<"xingbie">>, <<"Qling">>,
      <<"ruqunshijian">>>>

\* MemberRecord with a fault: the third column is the QQ number.
MemberRecordWithNumber(member) ==
    <<member.qq_name, member.group_name, member.qq_number,
      GenderDisplay(member.gender), member.qq_age, member.joined_date>>

\* The write_record of the loop over the members.
MemberRecord(member) ==
    <<member.qq_name, member.group_name, member.qq_name,
      GenderDisplay(member.gender), member.qq_age, member.joined_date>>

\* What convert_html writes: the header record, then a record per member.
CsvRecords(ms) == <<HeaderRecord>> \o [i \in 1..Len(ms) |-> MemberRecord(ms[i])]

----------------------------------------------------------------------------
(* The table.rs entry points applied to bounded documents *)

MaxNodes == 6      \* table, tr, th and td elements in a document
MaxRequest == 2    \* headers in a find_by_headers request

CellTags == {"th", "td"}

\* The inner HTML of the cells.
Names == {<<"N">>, <<" ", "A">>}

\* The strings asked for: a request is matched against trimmed cells.
Requested == Names \cup {Trim(s) : s \in Names}

RECURSIVE SeqsUpTo(_, _)
SeqsUpTo(S, n) ==
    IF n = 0 THEN {<<>>}
    ELSE LET shorter == SeqsUpTo(S, n - 1)
         IN  shorter \cup {Append(s, x) : s \in shorter, x \in S}

RECURSIVE SumLen(_)
SumLen(ss) == IF ss = <<>> THEN 0 ELSE Len(Head(ss)) + SumLen(Tail(ss))

\* The elements of a document: its tables, their trs, and their cells.
RECURSIVE CountNodes(_)
CountNodes(doc) ==
    IF doc = <<>> THEN 0
    ELSE 1 + Len(Head(doc).trs) + SumLen(Head(doc).trs) + CountNodes(Tail(doc))

NoResult == [kind |-> "none", val |-> <<>>, err |-> NoError]
NoCall == [op |-> "none", idx |-> 0, headers |-> <<>>]
NoGet == [row |-> 0, header |-> <<>>, value |-> None]

\* No table.rs entry point is called.
TableIdle ==
    /\ html = <<>>
    /\ call = NoCall
    /\ ret = None
    /\ got = NoGet

\* Member::from_html is not called.
MemberIdle ==
    /\ page = <<>>
    /\ result = NoResult

\* main does not run.
DriverIdle ==
    /\ args = <<>>
    /\ listing = <<>>
    /\ files = <<>>
    /\ csv0 = <<>>
    /\ csv = <<>>
    /\ argIdx = 0
    /\ walkIdx = 0
    /\ pc = "idle"
    /\ file_str = <<>>
    /\ members = <<>>
    /\ reads = <<>>
    /\ error = NoError

InitTable == TableIdle /\ MemberIdle /\ DriverIdle

\* The document grows by one table element, one tr or one cell, in document order.
AddTable ==
    /\ call = NoCall
    /\ CountNodes(html) < MaxNodes
    /\ html' = Append(html, [id |-> "", trs |-> <<>>])
    /\ UNCHANGED <<call, ret, got, memberVars, driverVars>>

AddTr ==
    /\ call = NoCall
    /\ html # <<>>
    /\ CountNodes(html) < MaxNodes
    /\ html' = [html EXCEPT ![Len(html)].trs = Append(@, <<>>)]
    /\ UNCHANGED <<call, ret, got, memberVars, driverVars>>

AddCell ==
    /\ call = NoCall
    /\ html # <<>>
    /\ html[Len(html)].trs # <<>>
    /\ CountNodes(html) < MaxNodes
    /\ \E tag \in CellTags, s \in Names :
           html' = [html EXCEPT ![Len(html)].trs[Len(html[Len(html)].trs)] =
                                    Append(@, [tag |-> tag, html |-> s])]
    /\ UNCHANGED <<call, ret, got, memberVars, driverVars>>

\* Table::new(element) on the i-th table element.
New ==
    \E i \in 1..Len(html) :
        /\ call = NoCall
        /\ call' = [op |-> "new", idx |-> i, headers |-> <<>>]
        /\ ret' = Some(TableNew(html[i]))
        /\ got' = NoGet
        /\ UNCHANGED <<html, memberVars, driverVars>>

\* Table::find_by_headers(html, headers)
FindByHeaders ==
    \E headers \in SeqsUpTo(Requested, MaxRequest) :
        /\ call = NoCall
        /\ call' = [op |-> "find_by_headers", idx |-> 0, headers |-> headers]
        /\ ret' = find_by_headers(html, headers)
        /\ got' = NoGet
        /\ UNCHANGED <<html, memberVars, driverVars>>

\* row.get(header) on a row of the table returned last.
Get ==
    /\ ret.some
    /\ got = NoGet
    /\ \E r \in 1..Len(Iter(ret.val)), header \in Requested :
           got' = [row |-> r, header |-> header,
                   value |-> RowGet(Iter(ret.val)[r].headers, Iter(ret.val)[r].cells,
                                    header)]
    /\ UNCHANGED <<html, call, ret, memberVars, driverVars>>

NextTable == AddTable \/ AddTr \/ AddCell \/ New \/ FindByHeaders \/ Get

SpecTable == InitTable /\ [][NextTable]_vars

----------------------------------------------------------------------------
(* Claims on table.rs, under SpecTable *)

\* The tr has a th cell.
HasTh(tr) == \E k \in 1..Len(tr) : tr[k].tag = "th"

\* The trimmed inner HTML of the td cells of a tr, in document order.
TdCells(tr) ==
    LET tds == SelectSeq(tr, LAMBDA c : c.tag = "td")
    IN  [k \in 1..Len(tds) |-> Trim(tds[k].html)]

\* C1: Table::new on a table element whose first tr has a th gives a
\* non-empty header map and one row per tr after the first, in document order;
\* on an element whose first tr has no th (or that has no tr) it gives an empty
\* header map and one row per tr, the first included.  A tr without td cells
\* gives an empty row, so the rows number the trs less one, or the trs.
C1_RowSplit ==
    call.op = "new" =>
        LET trs  == html[call.idx].trs
            t    == ret.val
            rows == Iter(t)
        IN  /\ ret.some
            /\ IF trs # <<>> /\ HasTh(trs[1])
               THEN /\ DOMAIN t.headers # {}
                    /\ Len(rows) = Len(trs) - 1
                    /\ \A r \in 1..Len(rows) : rows[r].cells = TdCells(trs[r + 1])
               ELSE /\ DOMAIN t.headers = {}
                    /\ Len(rows) = Len(trs)
                    /\ \A r \in 1..Len(rows) : rows[r].cells = TdCells(trs[r])

\* Table::new has split a header row from two later trs, one of them without td.
C1_Witness ==
    /\ call.op = "new"
    /\ Len(html[call.idx].trs) = 3
    /\ HasTh(html[call.idx].trs[1])
    /\ Len(ret.val.data) = 2
    /\ \E r \in 1..2 : ret.val.data[r] = <<>>
    /\ \E r \in 1..2 : ret.val.data[r] # <<>>

\* The i-th table element's first row has every requested header among its th cells.
Matches(i, headers) ==
    /\ html[i].trs # <<>>
    /\ \A j \in 1..Len(headers) :
           \E k \in 1..Len(html[i].trs[1]) :
               /\ html[i].trs[1][k].tag = "th"
               /\ Trim(html[i].trs[1][k].html) = headers[j]

C3_RowGet ==
    got.row > 0 =>
        LET headers == ret.val.headers
            cells   == ret.val.data[got.row]
            h       == got.header
        IN  IF h \in DOMAIN headers
            THEN IF headers[h] < Len(cells)
                 THEN /\ got.value.some
                      /\ got.value.val = cells[headers[h] + 1]
                 ELSE got.value = None
            ELSE got.value = None

\* Row::get has been asked for a header whose column the row does not reach.
C3_Witness ==
    /\ got.row > 0
    /\ got.header \in DOMAIN ret.val.headers
    /\ ret.val.headers[got.header] >= Len(ret.val.data[got.row])
    /\ ret.val.data[got.row] # <<>>
    /\ got.value = None

----------------------------------------------------------------------------
(* Member::from_html applied to bounded documents *)

MaxMembers == 2    \* tr elements of the member table

Th(s) == [tag |-> "th", html |-> s]
Td(s) == [tag |-> "td", html |-> s]

\* A member row of the page: nine td cells, the member's in cells 2 to 8.
MemberTr(name, group, gender) ==
    <<Td(<<>>), Td(<<"1">>), Td(name), Td(group), Td(<<"7">>), Td(gender),
      Td(<<"9", "y">>), Td(<<"j">>), Td(<<"l">>)>>

Prefixes(tr) == {SubSeq(tr, 1, n) : n \in 0..Len(tr)}

NameCells == {<<"<img>", " ", "<span>", " ", "a", " ", "</span>">>, <<"a">>}

\* One span; no span.
GroupCells == {<<"<span>", " ", "g", " ", "</span>">>, <<"g">>}

\* Spans nested twice and three times; markup without an inner span; markup
\* with an inner span after it; a blank span.
NestedGroupCells ==
    {<<"<span>", "<span>", " ", "g", " ", "</span>", "</span>">>,
     <<"<span>", "<span>", "<span>", " ", "g", " ", "</span>", "</span>", "</span>">>,
     <<"<span>", "<b>", "g", "</b>", "</span>">>,
     <<"<span>", "<b>", "x", "</b>", "<span>", "g", "</span>", "</span>">>,
     <<"<span>", " ", "</span>">>}

GenderCells == {<<"nan">>, <<"nv">>, <<"x">>}

HeaderTr == <<Th(<<"h">>), Th(<<"k">>)>>

\* The rows of the pages of several rows: a whole member row, a member row
\* cut short anywhere (with a gender cell that is a token, or is none), or a
\* row of th cells.
Trs ==
    {MemberTr(n, g, x) : n \in NameCells, g \in GroupCells, x \in GenderCells}
    \cup UNION {Prefixes(MemberTr(<<"<span>", "a", "</span>">>,
                                   <<"<span>", "g", "</span>">>, x)) :
                    x \in {<<"nan">>, <<"x">>}}
    \cup {HeaderTr}

\* The rows of the pages of one row: whole member rows, their cells varied more.
WholeTrs ==
    {MemberTr(n, g, x) : n \in NameCells, g \in GroupCells \cup NestedGroupCells,
                         x \in GenderCells \cup {<<"wei", "zhi">>, <<>>}}

Pages ==
    {<<>>}
    \cup {<<[id |-> "groupMember", trs |-> trs]>> : trs \in SeqsUpTo(Trs, MaxMembers)}
    \cup {<<[id |-> "groupMember", trs |-> <<tr>>]>> : tr \in WholeTrs}
    \cup {<<[id |-> id, trs |-> <<tr>>]>> : id \in {"", "other"}, tr \in WholeTrs}
    \cup {<<[id |-> "other", trs |-> <<>>], [id |-> "groupMember", trs |-> <<tr>>]>> :
              tr \in WholeTrs}

InitMember ==
    /\ TableIdle
    /\ DriverIdle
    /\ page \in Pages
    /\ result = NoResult

\* Member::from_html(html)
FromHtml ==
    /\ result = NoResult
    /\ result' = from_html(page)
    /\ UNCHANGED <<page, tableVars, driverVars>>

NextMember == FromHtml

SpecMember == InitMember /\ [][NextMember]_vars

----------------------------------------------------------------------------
(* Claims on qqtable.rs, under SpecMember *)

GenderTokens == {<<"nan">>, <<"nv">>, <<"wei", "zhi">>}

HasSpan(s) == \E k \in 1..Len(s) : s[k] = "<span>"

\* The trimmed inner HTML of the first span of s, for an s that has a span.
SpanText(s) == FirstSpan(s).val

\* The group-nickname cell unwraps: it has a span, and when that span's
\* content begins with '<', the content has a span too.
GroupUnwraps(s) ==
    HasSpan(s) /\ (StartsWithLt(SpanText(s)) => HasSpan(SpanText(s)))

\* What the group-nickname cell unwraps to: one level, and one more when the
\* first level's result begins with '<'.
GroupText(s) ==
    IF StartsWithLt(SpanText(s)) THEN SpanText(SpanText(s)) ELSE SpanText(s)

\* The page has a table with id "groupMember".
HasMemberTable == \E t \in 1..Len(page) : page[t].id = "groupMember"

\* The data rows of the page's first table with id "groupMember".
PageRows ==
    LET t   == CHOOSE t \in 1..Len(page) :
                   /\ page[t].id = "groupMember"
                   /\ \A u \in 1..(t - 1) : page[u].id # "groupMember"
        trs == page[t].trs
        dat == IF trs # <<>> /\ HasTh(trs[1]) THEN Tail(trs) ELSE trs
    IN  [r \in 1..Len(dat) |-> TdCells(dat[r])]

\* A cell at positions 2..8 is missing, or an expected span is missing.
RowFails(cells) ==
    \/ Len(cells) < 9
    \/ ~HasSpan(cells[3])
    \/ ~GroupUnwraps(cells[4])

\* The row's gender cell is none of the three tokens.
BadGender(cells) == Len(cells) >= 6 /\ cells[6] \notin GenderTokens

RowConverts(cells) == ~RowFails(cells) /\ ~BadGender(cells)

\* The row's gender cell is read, and is none of the three tokens.
GenderPanics(cells) ==
    /\ BadGender(cells)
    /\ HasSpan(cells[3])
    /\ GroupUnwraps(cells[4])

\* A gender cell that is none of the three tokens is read before any row fails.
PanicsFirst ==
    \E i \in 1..Len(PageRows) :
        /\ GenderPanics(PageRows[i])
        /\ \A j \in 1..(i - 1) : RowConverts(PageRows[j])

GenderOf(s) ==
    CASE s = <<"nan">> -> "Male"
      [] s = <<"nv">> -> "Female"
      [] s = <<"wei", "zhi">> -> "Unknown"

\* The Member of a row that converts.
MemberOf(cells) ==
    [qq_name          |-> SpanText(cells[3]),
     group_name       |-> GroupText(cells[4]),
     qq_number        |-> cells[5],
     gender           |-> GenderOf(cells[6]),
     qq_age           |-> cells[7],
     joined_date      |-> cells[8],
     last_spoken_date |-> cells[9]]

\* When every data row converts, from_html returns one Member per data row, in
\* row order.
AllOrdered ==
    (\A i \in 1..Len(PageRows) : RowConverts(PageRows[i])) =>
        /\ result.kind = "Ok"
        /\ Len(result.val) = Len(PageRows)
        /\ \A i \in 1..Len(PageRows) : result.val[i] = MemberOf(PageRows[i])

\* C4, as claimed: from_html is all-or-nothing.  When every data row converts
\* it returns one Member per data row in row order; when any data row fails (a
\* cell at positions 2..8 is missing, or an expected span is missing) it returns
\* an error and no Member.
C4_AllOrNothing_AsClaimed ==
    (result # NoResult /\ HasMemberTable) =>
        /\ AllOrdered
        /\ (\E i \in 1..Len(PageRows) : RowFails(PageRows[i])) =>
               (result.kind = "Err" /\ result.val = <<>>)

\* C4, amended: when every data row converts, from_html returns one Member per
\* data row in row order; when any data row fails it gives no Member at all: it
\* returns an error, unless a gender cell that is none of the three tokens is
\* read before the failure, and then it panics.
C4_AllOrNothing ==
    (result # NoResult /\ HasMemberTable) =>
        /\ AllOrdered
        /\ (\E i \in 1..Len(PageRows) : RowFails(PageRows[i])) =>
               /\ result.kind \in {"Err", "Panic"}
               /\ result.val = <<>>
               /\ result.kind = "Panic" <=> PanicsFirst

\* from_html has returned an error for a page whose first data row converts
\* and whose second fails.
C4_Witness ==
    /\ result.kind = "Err"
    /\ HasMemberTable
    /\ Len(PageRows) = 2
    /\ RowConverts(PageRows[1])
    /\ RowFails(PageRows[2])

\* When from_html returns Members, their genders are those of the gender cells.
GendersMapped ==
    result.kind = "Ok" =>
        \A i \in 1..Len(PageRows) :
            /\ PageRows[i][6] = <<"nan">> => result.val[i].gender = "Male"
            /\ PageRows[i][6] = <<"nv">> => result.val[i].gender = "Female"
            /\ PageRows[i][6] = <<"wei", "zhi">> => result.val[i].gender = "Unknown"

\* C5, as claimed: the gender cell "nan" maps to Male, "nv" to Female and
\* "weizhi" to Unknown, and whenever some data row's gender cell is anything
\* else, from_html ends in a panic.
C5_GenderOrPanic_AsClaimed ==
    (result # NoResult /\ HasMemberTable) =>
        /\ GendersMapped
        /\ (\E i \in 1..Len(PageRows) : BadGender(PageRows[i])) =>
               result.kind = "Panic"

\* C5, amended: the three tokens map to Male, Female and Unknown; a data row
\* whose gender cell is anything else makes from_html panic when every earlier
\* data row converts and the row's own name and nickname cells unwrap, and
\* otherwise from_html returns the earlier failure as an error.
C5_GenderOrPanic ==
    (result # NoResult /\ HasMemberTable) =>
        /\ GendersMapped
        /\ \A i \in 1..Len(PageRows) :
               BadGender(PageRows[i]) =>
                   IF /\ GenderPanics(PageRows[i])
                      /\ \A j \in 1..(i - 1) : RowConverts(PageRows[j])
                   THEN result.kind = "Panic"
                   ELSE result.kind \in {"Err", "Panic"}
        /\ (result.kind = "Panic") =>
               \E i \in 1..Len(PageRows) : BadGender(PageRows[i])

\* from_html has panicked on the gender cell of the second data row.
C5_Witness ==
    /\ result.kind = "Panic"
    /\ Len(PageRows) = 2
    /\ RowConverts(PageRows[1])
    /\ BadGender(PageRows[2])

\* C10: the group nickname is the trimmed content of the cell's first span,
\* unwrapped once more (and never a third time) exactly when that content
\* begins with '<'; a cell without a span, or whose first span's content
\* begins with '<' and has no span, fails the row with a NotFound error.
C10_GroupName ==
    (result # NoResult /\ HasMemberTable) =>
        \A i \in 1..Len(PageRows) :
            LET cells == PageRows[i]
            IN  (/\ \A j \in 1..(i - 1) : RowConverts(PageRows[j])
                 /\ Len(cells) >= 4
                 /\ HasSpan(cells[3])) =>
                    IF GroupUnwraps(cells[4])
                    THEN result.kind = "Ok" =>
                             result.val[i].group_name = GroupText(cells[4])
                    ELSE /\ result.kind = "Err"
                         /\ result.err = NotFound("qunnicheng", i - 1)

\* from_html has unwrapped a span nested three times, twice: the nickname it
\* returned is still markup.
C10_Witness ==
    /\ result.kind = "Ok"
    /\ Len(result.val) = 1
    /\ StartsWithLt(result.val[1].group_name)
    /\ HasSpan(result.val[1].group_name)

----------------------------------------------------------------------------
(* main on bounded file systems *)

MaxArgs == 2       \* command-line paths
MaxEntries == 2    \* entries of the directory

FileA == [stem |-> "a", ext |-> Some("html")]
FileB == [stem |-> "b", ext |-> Some("html")]
HtmlPaths == {FileA, FileB}
CsvPaths == {with_extension(f, "csv") : f \in HtmlPaths}

Dir == [kind |-> "dir", path |-> [stem |-> "d", ext |-> None]]
File(path) == [kind |-> "file", path |-> path]

\* What the walk of the directory can yield: the two html files, a file
\* without extension, a file with another extension, and an error.
DirEntries ==
    {File(FileA), File(FileB),
     File([stem |-> "README", ext |-> None]),
     File([stem |-> "notes", ext |-> Some("txt")]),
     [kind |-> "err", path |-> [stem |-> "", ext |-> None]]}

ArgPaths == {Dir, File(FileB)}

Injective(seq) == \A i, j \in 1..Len(seq) : seq[i] = seq[j] => i = j

GroupMember(trs) == <<[id |-> "groupMember", trs |-> trs]>>

TrA == MemberTr(<<"<img>", " ", "<span>", " ", "a", " ", "</span>">>,
                <<"<span>", " ", "g", " ", "</span>">>, <<"nan">>)
TrB == MemberTr(<<"<span>", "b", "</span>">>,
                <<"<span>", "<span>", " ", "h", " ", "</span>", "</span>">>, <<"nv">>)
TrC == MemberTr(<<"<span>", "c", "</span>">>, <<"<span>", " ", "</span>">>,
                <<"wei", "zhi">>)
TrX == MemberTr(<<"<span>", "c", "</span>">>, <<"<span>", "g", "</span>">>, <<"x">>)

\* Documents: two members under a header row; no table with the id; a second
\* row without its last cell; a second row with an unknown gender.
DocTwo == GroupMember(<<HeaderTr, TrA, TrB>>)
DocNoTable == <<[id |-> "other", trs |-> <<TrA>>]>>
DocShort == GroupMember(<<TrA, SubSeq(TrB, 1, 8)>>)
DocGender == GroupMember(<<TrA, TrX>>)
DocOne == GroupMember(<<TrC>>)

Text(doc) == [utf8 |-> TRUE, doc |-> doc]
NotUtf8 == [utf8 |-> FALSE, doc |-> <<>>]

Absent == [kind |-> "absent", records |-> <<>>]
OldCsv == [kind |-> "file", records |-> <<<<<<"old">>>>>>]
CsvDir == [kind |-> "dir", records |-> <<>>]

InitDriver ==
    /\ TableIdle
    /\ MemberIdle
    /\ args \in SeqsUpTo(ArgPaths, MaxArgs) \ {<<>>}
    /\ listing \in {l \in SeqsUpTo(DirEntries, MaxEntries) : Injective(l)}
    /\ \E a \in {Text(DocTwo), Text(DocNoTable), Text(DocShort), Text(DocGender),
                  NotUtf8} :
           files = [f \in HtmlPaths |-> IF f = FileA THEN a ELSE Text(DocOne)]
    /\ \E c \in {Absent, OldCsv, CsvDir} :
           csv0 = [f \in CsvPaths |->
                      IF f = with_extension(FileA, "csv") THEN c ELSE Absent]
    /\ csv = csv0
    /\ argIdx = 1
    /\ walkIdx = 0
    /\ pc = "walk"
    /\ file_str = <<>>
    /\ members = <<>>
    /\ reads = <<>>
    /\ error = NoError

\* The walk of the command-line path main is at, and the entry it yielded last.
CurWalk == Walk(args[argIdx], listing)
CurEntry == CurWalk[walkIdx]

\* The walk of the path is over, and the outer for takes the next path.
NextPath ==
    /\ pc = "walk"
    /\ walkIdx = Len(CurWalk)
    /\ argIdx < Len(args)
    /\ argIdx' = argIdx + 1
    /\ walkIdx' = 0
    /\ UNCHANGED <<args, listing, files, csv0, csv, pc, file_str, members, reads,
                   error, tableVars, memberVars>>

\* The walk of the last path is over: main returns Ok(()).
Finish ==
    /\ pc = "walk"
    /\ walkIdx = Len(CurWalk)
    /\ argIdx = Len(args)
    /\ pc' = "done"
    /\ UNCHANGED <<args, listing, files, csv0, csv, argIdx, walkIdx, file_str,
                   members, reads, error, tableVars, memberVars>>

\* The iterator chain of the inner for takes the next entry of the walk: it
\* drops it, panics on it, or gives it to the loop body.
TakeEntry ==
    /\ pc = "walk"
    /\ walkIdx < Len(CurWalk)
    /\ walkIdx' = walkIdx + 1
    /\ pc' = LET f == FilterEntry(CurWalk[walkIdx + 1])
             IN  IF f = "skip" THEN "walk" ELSE IF f = "panic" THEN "panic" ELSE "read"
    /\ UNCHANGED <<args, listing, files, csv0, csv, argIdx, file_str, members,
                   reads, error, tableVars, memberVars>>

\* convert_html: File::open and read_to_string.
ReadFile ==
    /\ pc = "read"
    /\ reads' = Append(reads, CurEntry.path)
    /\ IF files[CurEntry.path].utf8
       THEN /\ file_str' = files[CurEntry.path].doc
            /\ pc' = "map"
            /\ error' = error
       ELSE /\ file_str' = file_str
            /\ pc' = AfterConvert(FALSE)
            /\ error' = IoError("read")
    /\ UNCHANGED <<args, listing, files, csv0, csv, argIdx, walkIdx, members,
                   tableVars, memberVars>>

\* convert_html: Member::from_html(&file_str)?
MapMembers ==
    /\ pc = "map"
    /\ LET r == from_html(file_str)
       IN  /\ pc' = AfterFromHtml(r)
           /\ members' = r.val
           /\ error' = r.err
    /\ UNCHANGED <<args, listing, files, csv0, csv, argIdx, walkIdx, file_str,
                   reads, tableVars, memberVars>>

\* convert_html: Writer::from_path(out_path), the write_records and the flush.
WriteCsv ==
    /\ pc = "write"
    /\ LET out_path == with_extension(CurEntry.path, "csv")
       IN  IF csv[out_path].kind = "dir"
           THEN /\ csv' = csv
                /\ pc' = AfterConvert(FALSE)
                /\ error' = IoError("create")
           ELSE /\ csv' = [csv EXCEPT ![out_path] =
                               [kind |-> "file", records |-> CsvRecords(members)]]
                /\ pc' = AfterConvert(TRUE)
                /\ error' = error
    /\ UNCHANGED <<args, listing, files, csv0, argIdx, walkIdx, file_str, members,
                   reads, tableVars, memberVars>>

Next == NextPath \/ Finish \/ TakeEntry \/ ReadFile \/ MapMembers \/ WriteCsv

Init == InitDriver

Spec == Init /\ [][Next]_vars

----------------------------------------------------------------------------
(* Claims on main.rs, under Spec *)

Failed == pc \in {"error", "panic"}

\* The entry is a regular file whose extension is "html".
IsHtmlFile(e) == e.kind = "file" /\ e.path.ext = Some("html")

CsvOf(f) == [stem |-> f.stem, ext |-> Some("csv")]

\* The document of the file has a table with id "groupMember".
HasTable(f) == \E t \in 1..Len(files[f].doc) : files[f].doc[t].id = "groupMember"

\* C6: when the document has no table with id "groupMember", convert_html fails
\* with a NotFound error and the .csv beside it is neither created nor
\* modified; the output is opened for writing only after Member::from_html has
\* succeeded, so a file whose mapping fails leaves every .csv as it was.
C6_NoOutputOnFailure ==
    /\ pc = "write" => from_html(file_str).kind = "Ok"
    /\ \A f \in HtmlPaths :
           (files[f].utf8 /\ from_html(files[f].doc).kind # "Ok") =>
               csv[CsvOf(f)] = csv0[CsvOf(f)]
    /\ \A f \in HtmlPaths :
           (/\ reads # <<>>
            /\ reads[Len(reads)] = f
            /\ files[f].utf8
            /\ ~HasTable(f)
            /\ pc \notin {"read", "map"}) =>
               /\ pc = "error"
               /\ error = NotFound("table", 0)

\* main has ended with the NotFound error of a document without the table,
\* and the .csv that was there before is as it was.
C6_Witness ==
    /\ pc = "error"
    /\ error = NotFound("table", 0)
    /\ ~HasTable(FileA)
    /\ csv0[CsvOf(FileA)] = OldCsv
    /\ csv[CsvOf(FileA)] = OldCsv

\* C7, as claimed: only regular files whose extension is "html" are converted,
\* and every other entry of a walk (a directory, a file with another extension
\* or with none, an error of the walk) is passed over without ending the run:
\* a run that has failed has failed on an html file.
C7_OthersSkipped ==
    /\ \A i \in 1..Len(reads) : reads[i].ext = Some("html")
    /\ Failed => IsHtmlFile(CurEntry)

\* The html files of the walks of the command-line paths, in walk order.
RECURSIVE HtmlOrderFrom(_)
HtmlOrderFrom(a) ==
    IF a > Len(args) THEN <<>>
    ELSE LET w  == Walk(args[a], listing)
             hs == SelectSeq(w, IsHtmlFile)
         IN  [i \in 1..Len(hs) |-> hs[i].path] \o HtmlOrderFrom(a + 1)

HtmlOrder == HtmlOrderFrom(1)

\* The conversion of the file fails: it cannot be read, it does not map, or
\* its .csv cannot be created.
ConversionFails(f) ==
    \/ ~files[f].utf8
    \/ from_html(files[f].doc).kind # "Ok"
    \/ csv0[CsvOf(f)].kind = "dir"

\* C8: the files are converted one after another in walk order, and the first
\* file whose conversion fails ends the run with an error: no later file of the
\* walk order, under the same or a later command-line path, is read or has its
\* .csv written, and the .csv files written before stay as written.
C8_FirstFailureEndsRun ==
    /\ Len(reads) <= Len(HtmlOrder)
    /\ \A i \in 1..Len(reads) : reads[i] = HtmlOrder[i]
    /\ \A i \in 1..(Len(reads) - 1) :
           /\ ~ConversionFails(reads[i])
           /\ csv[CsvOf(reads[i])].kind = "file"
           /\ csv[CsvOf(reads[i])] # csv0[CsvOf(reads[i])]
    /\ \A i \in 1..Len(reads) :
           ConversionFails(reads[i]) => pc \in {"read", "map", "write", "error", "panic"}
    /\ \A f \in HtmlPaths :
           (\A i \in 1..Len(reads) : reads[i] = f => ConversionFails(f)) =>
               csv[CsvOf(f)] = csv0[CsvOf(f)]

\* main has ended on the second file it read, with the first one's .csv
\* written and an html file of the walk order left unread.
C8_Witness ==
    /\ pc = "error"
    /\ Len(reads) = 2
    /\ Len(HtmlOrder) > 2
    /\ csv[CsvOf(reads[1])] # csv0[CsvOf(reads[1])]

\* The CSV of a list of Members: the header row, then a row per Member with
\* the display name in the first and in the third column.
ExpectedCsv(ms) ==
    [i \in 1..(Len(ms) + 1) |->
        IF i = 1
        THEN <<<<"chengyuan">>, <<"qunnicheng">>, <<"QQhao">>, <<"xingbie">>,
               <<"Qling">>, <<"ruqunshijian">>>>
        ELSE LET m == ms[i - 1]
             IN  <<m.qq_name, m.group_name, m.qq_name,
                   CASE m.gender = "Male" -> <<"nan">>
                     [] m.gender = "Female" -> <<"nv">>
                     [] m.gender = "Unknown" -> <<"wei", "zhi">>,
                   m.qq_age, m.joined_date>>]

\* The conversion of the entry taken last has ended, and well.
Converted == pc = "walk" /\ walkIdx > 0 /\ IsHtmlFile(CurEntry)

\* C9: the CSV written for a mapped document is one header row (chengyuan,
\* qunnicheng, QQhao, xingbie, Qling, ruqunshijian) and then one row per Member
\* in order: display name, group nickname, display name again, gender as
\* displayed, tenure, join date.  Neither the QQ number nor the last-spoken
\* date is written.
C9_CsvRows ==
    /\ Converted =>
           /\ csv[CsvOf(CurEntry.path)].kind = "file"
           /\ csv[CsvOf(CurEntry.path)].records =
                  ExpectedCsv(from_html(files[CurEntry.path].doc).val)
    /\ \A f \in HtmlPaths :
           csv[CsvOf(f)] # csv0[CsvOf(f)] =>
               csv[CsvOf(f)].records = ExpectedCsv(from_html(files[f].doc).val)

\* A document of two members has been written as three rows.
C9_Witness ==
    /\ Converted
    /\ Len(members) = 2
    /\ Len(csv[CsvOf(CurEntry.path)].records) = 3
    /\ csv[CsvOf(CurEntry.path)].records[3][1] = <<"b">>
    /\ csv[CsvOf(CurEntry.path)].records[3][3] = <<"b">>

====
